---- MODULE Spec2Model ----
(***************************************************************************)
(* A model of multiqc/plots/plotly/plot.py: the construction of a Plot     *)
(* (Plot.initialize and _dataset_layout), the per-view resolution of the   *)
(* switch-controlled axes (Plot.get_figure), the enumeration of the flat   *)
(* images (Plot.flat_plot) and of the switch buttons (Plot.buttons), and   *)
(* rename_deprecated_highcharts_keys.                                      *)
(*                                                                         *)
(* Python values are tagged records, so that None, booleans, numbers,      *)
(* strings, dicts and lists can live in one dict and be compared as Python *)
(* compares them.  A Python str is a sequence of one-character strings; a  *)
(* Python dict is a function from its keys (TLA+ strings) to values.       *)
(***************************************************************************)
EXTENDS Integers, Sequences, FiniteSets, TLC

VARIABLES
    config,       \* the process-wide multiqc.config values the module reads
    lint_errors,  \* multiqc.report.lint_errors
    call,         \* the caller's arguments to Plot.initialize (the caller's own objects)
    plot,         \* the Plot that Plot.initialize returned, or NoPlot
    ret,          \* the outcome of the last call: its arguments, its value, what it raised
    conf          \* the caller's argument to rename_deprecated_highcharts_keys

vars == <<config, lint_errors, call, plot, ret, conf>>

-----------------------------------------------------------------------------
(* Python values *)

None == [t |-> "None"]
PyBool(b) == [t |-> "bool", b |-> b]
PyInt(i) == [t |-> "int", i |-> i]
PyStr(s) == [t |-> "str", s |-> s]
PyDict(d) == [t |-> "dict", d |-> d]
PyList(l) == [t |-> "list", l |-> l]
True == PyBool(TRUE)
False == PyBool(FALSE)

\* bool(v): what `if v`, `v and ...`, `v or ...` test
Truthy(v) ==
    CASE v.t = "None" -> FALSE
      [] v.t = "bool" -> v.b
      [] v.t = "int" -> v.i # 0
      [] v.t = "str" -> Len(v.s) > 0
      [] v.t = "dict" -> DOMAIN v.d # {}
      [] v.t = "list" -> Len(v.l) > 0

\* dict()
EmptyDict == [k \in {} |-> None]

\* d.get(k, default)
Get(d, k, default) == IF k \in DOMAIN d THEN d[k] ELSE default

\* d[k] = v
Put(d, k, v) == [x \in (DOMAIN d) \cup {k} |-> IF x = k THEN v ELSE d[x]]

\* d without the key k (the dict that d.pop(k) leaves)
Pop(d, k) == [x \in (DOMAIN d) \ {k} |-> d[x]]

\* d.update(e)
Update(d, e) == [x \in (DOMAIN d) \cup (DOMAIN e) |-> IF x \in DOMAIN e THEN e[x] ELSE d[x]]

\* plotly's obj.update(props): the properties given replace the object's
UpdateProps(obj, props) == [f \in DOMAIN obj |-> IF f \in DOMAIN props THEN props[f] ELSE obj[f]]

-----------------------------------------------------------------------------
(* Python str operations, on sequences of characters *)

DigitChars == <<"0", "1", "2", "3", "4", "5", "6", "7", "8", "9">>

\* str(n) for n >= 0
RECURSIVE str(_)
str(n) ==
    IF n < 10 THEN <<DigitChars[n + 1]>>
    ELSE str(n \div 10) \o <<DigitChars[(n % 10) + 1]>>

IsSpace(c) == c \in {" ", "\t", "\n"}

RECURSIVE LStrip(_)
LStrip(s) == IF Len(s) > 0 /\ IsSpace(Head(s)) THEN LStrip(Tail(s)) ELSE s

RECURSIVE RStrip(_)
RStrip(s) ==
    IF Len(s) > 0 /\ IsSpace(s[Len(s)]) THEN RStrip(SubSeq(s, 1, Len(s) - 1)) ELSE s

\* s.strip()
Strip(s) == RStrip(LStrip(s))

\* s.startswith(p) at position i (1-based)
MatchAt(s, p, i) == i + Len(p) - 1 <= Len(s) /\ SubSeq(s, i, i + Len(p) - 1) = p

\* sub in s
Contains(s, sub) == \E i \in 1..(Len(s) + 1) : MatchAt(s, sub, i)

\* s.endswith(suf)
EndsWith(s, suf) == Len(suf) <= Len(s) /\ MatchAt(s, suf, Len(s) - Len(suf) + 1)

\* s.startswith(p)
StartsWith(s, p) == MatchAt(s, p, 1)

UpperChars == <<"A", "B", "C", "D", "E", "F", "G", "H", "I", "J", "K", "L", "M",
                "N", "O", "P", "Q", "R", "S", "T", "U", "V", "W", "X", "Y", "Z">>
LowerChars == <<"a", "b", "c", "d", "e", "f", "g", "h", "i", "j", "k", "l", "m",
                "n", "o", "p", "q", "r", "s", "t", "u", "v", "w", "x", "y", "z">>

\* s.lower()
Lower(s) ==
    [i \in 1..Len(s) |->
        IF \E j \in 1..26 : UpperChars[j] = s[i]
        THEN LowerChars[CHOOSE j \in 1..26 : UpperChars[j] = s[i]]
        ELSE s[i]]

\* the index of the first occurrence of sub in s at or after i, or 0
RECURSIVE Find(_, _, _)
Find(s, sub, i) ==
    IF i + Len(sub) - 1 > Len(s) THEN 0
    ELSE IF MatchAt(s, sub, i) THEN i
    ELSE Find(s, sub, i + 1)

\* s.replace(old, new), old non-empty
RECURSIVE Replace(_, _, _)
Replace(s, old, new) ==
    LET i == Find(s, old, 1) IN
    IF i = 0 THEN s
    ELSE SubSeq(s, 1, i - 1) \o new \o Replace(SubSeq(s, i + Len(old), Len(s)), old, new)

\* s.split(sep), sep non-empty: the list of the parts
RECURSIVE Split(_, _)
Split(s, sep) ==
    LET i == Find(s, sep, 1) IN
    IF i = 0 THEN <<s>>
    ELSE <<SubSeq(s, 1, i - 1)>> \o Split(SubSeq(s, i + Len(sep), Len(s)), sep)

-----------------------------------------------------------------------------
(* _dataset_layout and _clean_config_tt_label *)

KNOWN_SUFFIXES ==
    << <<"%">>, <<"x">>, <<"X">>, <<"k">>, <<"M">>,
       <<" ", "b", "p">>, <<" ", "k", "b", "p">>, <<" ", "M", "b", "p">> >>

\* a == b on Python values: a bool compares as the number it is
PyEq(a, b) ==
    LET num(v) == IF v.t = "bool" THEN PyInt(IF v.b THEN 1 ELSE 0) ELSE v
    IN  num(a) = num(b)

\* for suf in KNOWN_SUFFIXES: if suffix is not None and suffix == suf.strip(): suffix = suf
RECURSIVE SetSpaceInSuffix(_, _)
SetSpaceInSuffix(suffix, i) ==
    IF i > Len(KNOWN_SUFFIXES) THEN suffix
    ELSE SetSpaceInSuffix(
            IF suffix # None /\ suffix = PyStr(Strip(KNOWN_SUFFIXES[i]))
            THEN PyStr(KNOWN_SUFFIXES[i]) ELSE suffix,
            i + 1)

\* labformat.split("}")[1] when "}" in labformat
SuffixOfLabFormat(suffix, labformat) ==
    IF suffix = None /\ Truthy(labformat) /\ Contains(labformat.s, <<"}">>)
    THEN PyStr(Split(labformat.s, <<"}">>)[2])
    ELSE suffix

\* for suf in KNOWN_SUFFIXES: if lab.endswith(f" ({suf.strip()})"): suffix = suf
RECURSIVE SuffixInParens(_, _, _)
SuffixInParens(suffix, lab, i) ==
    IF i > Len(KNOWN_SUFFIXES) THEN suffix
    ELSE SuffixInParens(
            IF EndsWith(lab, <<" ", "(">> \o Strip(KNOWN_SUFFIXES[i]) \o <<")">>)
            THEN PyStr(KNOWN_SUFFIXES[i]) ELSE suffix,
            lab, i + 1)

\* the suffix set from an axis label in a form like "% reads" or "Length (bp)"
SuffixOfLab(suffix, lab) ==
    IF suffix = None /\ Truthy(lab)
    THEN SuffixInParens(
            IF Contains(lab.s, <<"%">>)
               \/ Contains(Lower(lab.s), <<"p", "e", "r", "c", "e", "n", "t", "a", "g", "e">>)
            THEN PyStr(<<"%">>) ELSE suffix,
            lab.s, 1)
    ELSE suffix

\* replace_d, in the order of the dict
TtLabelReplacements ==
    << << <<"{", "p", "o", "i", "n", "t", ".", "x">>, <<"%", "{", "x">> >>,
       << <<"{", "p", "o", "i", "n", "t", ".", "y">>, <<"%", "{", "y">> >>,
       << <<"x", ":", ">">>, <<"x", ":">> >>,
       << <<"y", ":", ">">>, <<"y", ":">> >>,
       << <<"{", "p", "o", "i", "n", "t", ".", "c", "a", "t", "e", "g", "o", "r", "y", "}">>,
          <<"%", "{", "x", "}">> >>,
       << <<"<", "s", "t", "r", "o", "n", "g", ">">>, <<"<", "b", ">">> >>,
       << <<"<", "/", "s", "t", "r", "o", "n", "g", ">">>, <<"<", "/", "b", ">">> >>,
       << <<"<", "b", "r", "/", ">">>, <<"<", "b", "r", ">">> >> >>

RECURSIVE CleanFrom(_, _)
CleanFrom(tt_label, i) ==
    IF i > Len(TtLabelReplacements) THEN tt_label
    ELSE CleanFrom(Replace(tt_label, TtLabelReplacements[i][1], TtLabelReplacements[i][2]), i + 1)

_clean_config_tt_label(tt_label) == CleanFrom(tt_label, 1)

\* for suf in KNOWN_SUFFIXES: if info == suf.strip(): suffix = suf; break
SuffixOfInfo(suffix, info) ==
    IF \E i \in 1..Len(KNOWN_SUFFIXES) : info = Strip(KNOWN_SUFFIXES[i])
    THEN PyStr(KNOWN_SUFFIXES[
            CHOOSE i \in 1..Len(KNOWN_SUFFIXES) :
                /\ info = Strip(KNOWN_SUFFIXES[i])
                /\ \A j \in 1..(i - 1) : info # Strip(KNOWN_SUFFIXES[j])])
    ELSE suffix

\* part.split("}")[1].replace("</b>", "").split(":")[0].split(",")[0].strip().split(" ")[0]
InfoOfPart(part) ==
    LET a == Replace(Split(part, <<"}">>)[2], <<"<", "/", "b", ">">>, <<>>)
        b == Split(a, <<":">>)[1]
        c == Split(b, <<",">>)[1]
    IN  Split(Strip(c), <<" ">>)[1]

\* one round of the loop over the parts: the suffix taken from the part's info
SuffixesOfPart(sufs, part, info) ==
    IF sufs[1] = None /\ StartsWith(part, <<"y">>) /\ Contains(part, <<"}">>)
    THEN <<IF Len(info) > 0 THEN SuffixOfInfo(sufs[1], info) ELSE sufs[1], sufs[2]>>
    ELSE IF sufs[2] = None /\ StartsWith(part, <<"x">>) /\ Contains(part, <<"}">>)
    THEN <<sufs[1], IF Len(info) > 0 THEN SuffixOfInfo(sufs[2], info) ELSE sufs[2]>>
    ELSE sufs

\* the loop over tt_label.split("%{"): sufs is <<ysuffix, xsuffix>>
RECURSIVE SuffixesOfParts(_, _, _)
SuffixesOfParts(sufs, parts, i) ==
    IF i > Len(parts) THEN sufs
    ELSE SuffixesOfParts(
            SuffixesOfPart(sufs, parts[i],
                           IF Contains(parts[i], <<"}">>) THEN InfoOfPart(parts[i]) ELSE <<>>),
            parts, i + 1)

\* remove the suffix written after the plain {y} or {x} of the label
RemoveSuffix(tt_label, v, suffix) ==
    IF suffix = None THEN tt_label
    ELSE LET ph == <<"{", v, "}">>
             a == IF Contains(tt_label, ph \o suffix.s)
                  THEN Replace(tt_label, ph \o suffix.s, ph) ELSE tt_label
         IN  IF Contains(a, ph \o <<" ">> \o suffix.s)
             THEN Replace(a, ph \o <<" ">> \o suffix.s, ph) ELSE a

\* f",.{decimals}f" if decimals is not None else None
HoverFormat(decimals) ==
    IF decimals # None THEN PyStr(<<",", ".">> \o str(decimals.i) \o <<"f">>) ELSE None

\* the suffixes found in the cleaned tt_label when one of them is still unset
SuffixesOfTtLabel(sufs, pconfig) ==
    IF "tt_label" \in DOMAIN pconfig /\ (sufs[1] = None \/ sufs[2] = None)
    THEN SuffixesOfParts(sufs, Split(_clean_config_tt_label(pconfig["tt_label"].s), <<"%", "{">>), 1)
    ELSE sufs

\* <<ysuffix, xsuffix>> as the first part of _dataset_layout leaves them
Suffixes(pconfig) ==
    LET ysuffix0 == Get(pconfig, "ysuffix", Get(pconfig, "tt_suffix", None))
        xsuffix0 == Get(pconfig, "xsuffix", None)
        ylabformat == Get(pconfig, "ylab_format", Get(pconfig, "yLabFormat", None))
        xlabformat == Get(pconfig, "xlab_format", Get(pconfig, "xLabFormat", None))
        ysuffix1 == SetSpaceInSuffix(SuffixOfLabFormat(ysuffix0, ylabformat), 1)
        xsuffix1 == SetSpaceInSuffix(SuffixOfLabFormat(xsuffix0, xlabformat), 1)
        ysuffix2 == SuffixOfLab(ysuffix1, Get(pconfig, "ylab", None))
        xsuffix2 == SuffixOfLab(xsuffix1, Get(pconfig, "xlab", None))
    IN  SuffixesOfTtLabel(<<ysuffix2, xsuffix2>>, pconfig)

\* if not tt_label.startswith("<br>"): tt_label = "<br>" + tt_label
WithLeadingBreak(tt_label) ==
    IF StartsWith(tt_label, <<"<", "b", "r", ">">>) THEN tt_label
    ELSE <<"<", "b", "r", ">">> \o tt_label

\* tt_label: the configured one, cleaned and without the suffixes, or the default
TtLabel(pconfig, sufs, default_tt_label) ==
    IF "tt_label" \in DOMAIN pconfig
    THEN PyStr(WithLeadingBreak(
            RemoveSuffix(RemoveSuffix(_clean_config_tt_label(pconfig["tt_label"].s), "y", sufs[1]),
                         "x", sufs[2])))
    ELSE default_tt_label

\* hovertemplate: "<b>%{text}</b>" + tt_label + "<extra></extra>", or None
HoverTemplate(tt_label) ==
    IF Truthy(tt_label)
    THEN PyStr(<<"<", "b", ">", "%", "{", "t", "e", "x", "t", "}", "<", "/", "b", ">">>
               \o tt_label.s
               \o <<"<", "e", "x", "t", "r", "a", ">", "<", "/", "e", "x", "t", "r", "a", ">">>)
    ELSE None

\* trace_params: the hovertemplate when there is one
TraceParams(hovertemplate) ==
    IF Truthy(hovertemplate) THEN [k \in {"hovertemplate"} |-> hovertemplate] ELSE EmptyDict

\* ticksuffix=suffix or ""
TickSuffix(suffix) == IF Truthy(suffix) THEN suffix ELSE PyStr(<<>>)

\* rangemode="tozero" if the axis minimum == 0 else "normal"
RangeMode(min) ==
    IF PyEq(min, PyInt(0)) THEN PyStr(<<"t", "o", "z", "e", "r", "o">>)
    ELSE PyStr(<<"n", "o", "r", "m", "a", "l">>)

\* the layout dict of _dataset_layout
DatasetLayout(pconfig, sufs) ==
    [title |-> Get(pconfig, "title", None),
     xaxis |->
        [hoverformat |-> HoverFormat(Get(pconfig, "x_decimals", None)),
         ticksuffix |-> TickSuffix(sufs[2]),
         title |-> Get(pconfig, "xlab", None),
         rangemode |-> RangeMode(Get(pconfig, "xmin", None)),
         clipmin |-> Get(pconfig, "x_clipmin", Get(pconfig, "xFloor", None)),
         clipmax |-> Get(pconfig, "x_clipmax", Get(pconfig, "xCeiling", None)),
         minallowed |-> Get(pconfig, "xmin", None),
         maxallowed |-> Get(pconfig, "xmax", None)],
     yaxis |->
        [hoverformat |-> HoverFormat(Get(pconfig, "tt_decimals",
                            Get(pconfig, "y_decimals", Get(pconfig, "decimalPlaces", None)))),
         ticksuffix |-> TickSuffix(sufs[1]),
         title |-> Get(pconfig, "ylab", None),
         rangemode |-> RangeMode(Get(pconfig, "ymin", None)),
         clipmin |-> Get(pconfig, "y_clipmin", Get(pconfig, "yFloor", None)),
         clipmax |-> Get(pconfig, "y_clipmax", Get(pconfig, "yCeiling", None)),
         minallowed |-> Get(pconfig, "ymin", None),
         maxallowed |-> Get(pconfig, "ymax", None)]]

\* the layout and the trace parameters, given the merged pconfig and the suffixes
LayoutAndTraceParams(pconfig, sufs, default_tt_label) ==
    [layout |-> DatasetLayout(pconfig, sufs),
     trace_params |-> TraceParams(HoverTemplate(TtLabel(pconfig, sufs, default_tt_label)))]

\* ysuffix and xsuffix before the axis labels are looked at
SuffixesBeforeLab(pconfig) ==
    <<SetSpaceInSuffix(
        SuffixOfLabFormat(Get(pconfig, "ysuffix", Get(pconfig, "tt_suffix", None)),
                          Get(pconfig, "ylab_format", Get(pconfig, "yLabFormat", None))), 1),
      SetSpaceInSuffix(
        SuffixOfLabFormat(Get(pconfig, "xsuffix", None),
                          Get(pconfig, "xlab_format", Get(pconfig, "xLabFormat", None))), 1)>>

\* what `"%" in lab or "percentage" in lab.lower()` and lab.endswith raise
\* when lab is not a str: a number is not iterable, a list or a dict has no
\* lower() and no endswith()
LabError(suffix, lab) ==
    IF suffix = None /\ Truthy(lab) /\ lab.t # "str"
    THEN IF lab.t \in {"int", "bool"} THEN "TypeError" ELSE "AttributeError"
    ELSE "none"

\* the exception of the part that reads ylab and xlab, ylab first
LabErrors(pconfig, sufs) ==
    IF LabError(sufs[1], Get(pconfig, "ylab", None)) # "none"
    THEN LabError(sufs[1], Get(pconfig, "ylab", None))
    ELSE LabError(sufs[2], Get(pconfig, "xlab", None))

\* the exception that _dataset_layout raises on the merged pconfig, or "none"
MergedConfigError(pconfig) == LabErrors(pconfig, SuffixesBeforeLab(pconfig))

\* the exception that _dataset_layout raises, or "none"
_dataset_layout_error(pconfig_arg, dconfig) == MergedConfigError(Update(pconfig_arg, dconfig))

\* pconfig = pconfig.copy(); pconfig.update(dconfig); then the layout and trace_params
MergedConfigLayout(pconfig, default_tt_label) ==
    LayoutAndTraceParams(pconfig, Suffixes(pconfig), default_tt_label)

_dataset_layout(pconfig_arg, dconfig, default_tt_label) ==
    MergedConfigLayout(Update(pconfig_arg, dconfig), default_tt_label)

-----------------------------------------------------------------------------
(* Plot.initialize *)

LINE == "xy_line"
VIOLIN == "violin"
BAR == "bar_graph"
SCATTER == "scatter"
HEATMAP == "heatmap"
BOX == "box"
PlotType == {LINE, VIOLIN, BAR, SCATTER, HEATMAP, BOX}

\* no Plot was returned
NoPlot == [t |-> "None"]

\* nothing has been called yet
NoRet == [op |-> "none"]

Log == PyStr(<<"l", "o", "g">>)
Linear == PyStr(<<"l", "i", "n", "e", "a", "r">>)

DefaultHeight == 500
FLAT_PLOT_WIDTH == 1100

\* math.log10 of a positive power of ten (the bounds the model draws)
RECURSIVE log10(_)
log10(n) == IF n < 10 THEN 0 ELSE 1 + log10(n \div 10)

\* math.log10(val) if val is not None and val > 0 else None
LogOrNone(val) == IF val # None /\ val.i > 0 THEN PyInt(log10(val.i)) ELSE None

\* a go.layout.XAxis / YAxis as the module sets and reads it; its
\* autorangeoptions are the fields clipmin, clipmax, minallowed, maxallowed
NewAxis ==
    [type |-> None, hoverformat |-> None, ticksuffix |-> None, title |-> None,
     rangemode |-> None, clipmin |-> None, clipmax |-> None,
     minallowed |-> None, maxallowed |-> None]

_set_axis_log_scale(axis) ==
    [axis EXCEPT !.type = Log,
                 !.minallowed = LogOrNone(axis.minallowed),
                 !.maxallowed = LogOrNone(axis.maxallowed)]

\* id or pconfig.get("id"), else "mqc_plot_" and ten random letters
PlotId(id, pconfig, uniq_suffix) ==
    LET given == IF Truthy(id) THEN id ELSE Get(pconfig, "id", None)
    IN  IF given = None
        THEN PyStr(<<"m", "q", "c", "_", "p", "l", "o", "t", "_">> \o uniq_suffix)
        ELSE given

\* the log switch offered for every plot type
add_log_tab_AnyType(plot_type, pconfig) ==
    Truthy(Get(pconfig, "logswitch", False))

add_log_tab(plot_type, pconfig) ==
    Truthy(Get(pconfig, "logswitch", False)) /\ plot_type \in {BAR, LINE}

add_pct_tab(plot_type, pconfig) ==
    Get(pconfig, "cpswitch", True) # False /\ plot_type = BAR

l_active(plot_type, pconfig) ==
    add_log_tab(plot_type, pconfig) /\ Get(pconfig, "logswitch_active", None) = True

\* the percentages shown unless cpswitch_c_active says otherwise
p_active_ByDefault(plot_type, pconfig) ==
    add_pct_tab(plot_type, pconfig) /\ Get(pconfig, "cpswitch_c_active", False) # True

p_active(plot_type, pconfig) ==
    add_pct_tab(plot_type, pconfig) /\ Get(pconfig, "cpswitch_c_active", True) # True

\* the series count deciding whatever plots_force_interactive says
flat_IgnoringForceInteractive(n_datasets) ==
    config.plots_force_flat \/ n_datasets > config.plots_flat_numseries

flat(n_datasets) ==
    config.plots_force_flat
    \/ (~config.plots_force_interactive /\ n_datasets > config.plots_flat_numseries)

\* l.remove(x): without the first x
RECURSIVE Remove(_, _)
Remove(l, x) ==
    IF l = <<>> THEN l
    ELSE IF Head(l) = x THEN Tail(l)
    ELSE <<Head(l)>> \o Remove(Tail(l), x)

Elements(l) == {l[i] : i \in 1..Len(l)}

\* the list of switch-controlled axes after the always-log axes are removed
ControlledAxes(axes, pconfig) ==
    LET a0 == IF Truthy(axes) THEN axes.l ELSE <<>>
        a1 == IF Truthy(Get(pconfig, "xlog", Get(pconfig, "xLog", None))) /\ "xaxis" \in Elements(a0)
              THEN Remove(a0, "xaxis") ELSE a0
    IN  IF Truthy(Get(pconfig, "ylog", Get(pconfig, "yLog", None))) /\ "yaxis" \in Elements(a1)
        THEN Remove(a1, "yaxis") ELSE a1

\* the caller's list after the call: `axes or []` is the caller's list when
\* it is not empty, and remove() changes it in place
CallerAxesAfter(axes, pconfig) ==
    IF Truthy(axes) THEN PyList(ControlledAxes(axes, pconfig)) ELSE axes

\* the go.Layout that initialize builds
BaseLayout(plot_type, pconfig, n_datasets, axes) ==
    LET height == Get(pconfig, "height", PyInt(DefaultHeight))
        width == IF Truthy(Get(pconfig, "square", None)) THEN height ELSE Get(pconfig, "width", None)
        title == Get(pconfig, "table_title", Get(pconfig, "title", None))
        xlog == Truthy(Get(pconfig, "xlog", Get(pconfig, "xLog", None)))
        ylog == Truthy(Get(pconfig, "ylog", Get(pconfig, "yLog", None)))
        switched == IF l_active(plot_type, pconfig)
                    THEN Elements(ControlledAxes(axes, pconfig)) ELSE {}
        axis(name, static_log) ==
            LET a == IF static_log THEN _set_axis_log_scale(NewAxis) ELSE NewAxis
            IN  IF name \in switched THEN [a EXCEPT !.type = Log] ELSE a
    IN  [title |-> title,
         height |-> height,
         width |-> width,
         showlegend |-> flat(n_datasets),
         xaxis |-> axis("xaxis", xlog),
         yaxis |-> axis("yaxis", ylog)]

\* the entry of data_labels for dataset idx (0-based), or a new {}
DataLabel(pconfig, idx) ==
    LET given == Get(pconfig, "data_labels", None)
        dconfigs == IF Truthy(given) THEN given.l ELSE <<>>
    IN  IF idx < Len(dconfigs) THEN dconfigs[idx + 1] ELSE PyDict(EmptyDict)

\* the dconfig of dataset idx as initialize leaves it
DConfig(pconfig, idx) ==
    LET entry == DataLabel(pconfig, idx)
        dconfig == IF entry.t = "dict" THEN entry.d ELSE [k \in {"name"} |-> entry]
    IN  IF "ylab" \notin DOMAIN dconfig /\ "ylab" \notin DOMAIN pconfig
        THEN Put(dconfig, "ylab", Get(dconfig, "name", Get(dconfig, "label", None)))
        ELSE dconfig

\* every dataset given the plot's id
DatasetUid_PlotId(id, n_datasets, idx) == id

\* dataset.uid
DatasetUid(id, n_datasets, idx) ==
    IF n_datasets > 1 THEN PyStr(id.s \o <<"_">> \o str(idx + 1)) ELSE id

\* dataset.label
DatasetLabel(pconfig, idx) ==
    LET entry == DataLabel(pconfig, idx)
        dconfig == IF entry.t = "dict" THEN entry.d ELSE [k \in {"name"} |-> entry]
    IN  Get(dconfig, "name", Get(dconfig, "label", PyStr(str(idx + 1))))

\* the BaseDataset of index idx (0-based)
Dataset(id, pconfig, n_datasets, idx, default_tt_label) ==
    LET dconfig == DConfig(pconfig, idx)
        built == _dataset_layout(pconfig, dconfig, default_tt_label)
    IN  [plot_id |-> id,
         label |-> DatasetLabel(pconfig, idx),
         uid |-> DatasetUid(id, n_datasets, idx),
         dconfig |-> dconfig,
         layout |-> built.layout,
         trace_params |-> built.trace_params,
         pct_range |-> [a \in {"xaxis", "yaxis"} |->
                          [m \in {"min", "max"} |-> IF m = "min" THEN PyInt(0) ELSE PyInt(100)]]]

\* the caller's pconfig after the call: a dict among its data_labels is the
\* dataset's dconfig itself, and gets the "ylab" that initialize sets
PConfigAfter(pconfig, n_datasets) ==
    LET given == Get(pconfig, "data_labels", None)
    IN  IF Truthy(given)
        THEN Put(pconfig, "data_labels",
                 PyList([i \in 1..Len(given.l) |->
                            IF i <= n_datasets /\ given.l[i].t = "dict"
                            THEN PyDict(DConfig(pconfig, i - 1))
                            ELSE given.l[i]]))
        ELSE pconfig

\* the Plot that initialize returns
NewPlot(c, uniq_suffix) ==
    LET id == PlotId(c.id, c.pconfig, uniq_suffix)
    IN  [id |-> id,
         plot_type |-> c.plot_type,
         layout |-> BaseLayout(c.plot_type, c.pconfig, c.n_datasets, c.axis_controlled_by_switches),
         datasets |-> [i \in 1..c.n_datasets |->
                          Dataset(id, c.pconfig, c.n_datasets, i - 1, c.default_tt_label)],
         pconfig |-> PConfigAfter(c.pconfig, c.n_datasets),
         add_log_tab |-> add_log_tab(c.plot_type, c.pconfig),
         add_pct_tab |-> add_pct_tab(c.plot_type, c.pconfig),
         l_active |-> l_active(c.plot_type, c.pconfig),
         p_active |-> p_active(c.plot_type, c.pconfig),
         pct_axis_update |-> [k \in {"ticksuffix", "hoverformat"} |->
                                 IF k = "ticksuffix" THEN PyStr(<<"%">>)
                                 ELSE PyStr(<<".", "1", "f">>)],
         axis_controlled_by_switches |->
            ControlledAxes(c.axis_controlled_by_switches, c.pconfig),
         square |-> Get(c.pconfig, "square", False),
         flat |-> flat(c.n_datasets)]

\* the letters random.sample may draw (two of its outcomes)
UniqSuffixes == {<<"a", "b", "c", "d", "e", "f", "g", "h", "i", "j">>,
                 <<"z", "y", "x", "w", "v", "u", "t", "s", "r", "q">>}

\* whether the id is drawn at random
IdIsRandom(c) == ~Truthy(c.id) /\ Get(c.pconfig, "id", None) = None

\* report.lint_errors after the title check
LintAfter(c, id) ==
    IF ~Truthy(Get(c.pconfig, "table_title", Get(c.pconfig, "title", None))) /\ config.strict
    THEN Append(lint_errors, id)
    ELSE lint_errors

\* the check of n_datasets left out
NoDatasets_Unchecked(n_datasets) == FALSE

\* if n_datasets == 0: raise ValueError("No datasets to plot")
NoDatasets(n_datasets) == n_datasets = 0

\* the exception that the round of dataset idx raises, or "none"
DatasetError(pconfig, idx) == _dataset_layout_error(pconfig, DConfig(pconfig, idx))

\* the first dataset (0-based) from idx on whose round raises, or n_datasets
RECURSIVE FirstFailing(_, _)
FirstFailing(c, idx) ==
    IF idx >= c.n_datasets THEN idx
    ELSE IF DatasetError(c.pconfig, idx) # "none" THEN idx
    ELSE FirstFailing(c, idx + 1)

\* the caller's objects when the round of dataset `failing` raised: the
\* axes list and the dicts of the rounds begun have been changed by then
CallAfterError(c, failing) ==
    [c EXCEPT
        !.pconfig = PConfigAfter(c.pconfig, failing + 1),
        !.axis_controlled_by_switches = CallerAxesAfter(c.axis_controlled_by_switches, c.pconfig)]

\* the outcome of initialize when the round of dataset `failing` raises
InitializeRaises(failing, uniq_suffix) ==
    /\ ret' = [op |-> "initialize", raised |-> DatasetError(call.pconfig, failing)]
    /\ call' = CallAfterError(call, failing)
    /\ lint_errors' = LintAfter(call, PlotId(call.id, call.pconfig, uniq_suffix))
    /\ UNCHANGED plot

\* the outcome of initialize when it returns the Plot
InitializeReturns(new) ==
    /\ plot' = new
    /\ call' = [call EXCEPT
                  !.pconfig = new.pconfig,
                  !.axis_controlled_by_switches =
                      CallerAxesAfter(call.axis_controlled_by_switches, call.pconfig)]
    /\ lint_errors' = LintAfter(call, new.id)
    /\ ret' = [op |-> "initialize", raised |-> "none"]

Initialize ==
    /\ ret = NoRet
    /\ call # None
    /\ IF NoDatasets(call.n_datasets)
       THEN /\ ret' = [op |-> "initialize", raised |-> "ValueError"]
            /\ UNCHANGED <<plot, call, lint_errors>>
       ELSE \E uniq_suffix \in (IF IdIsRandom(call) THEN UniqSuffixes ELSE {<<>>}) :
                IF FirstFailing(call, 0) < call.n_datasets
                THEN InitializeRaises(FirstFailing(call, 0), uniq_suffix)
                ELSE InitializeReturns(NewPlot(call, uniq_suffix))
    /\ UNCHANGED <<config, conf>>

-----------------------------------------------------------------------------
(* Plot.get_figure *)

\* layout.update(**dataset.layout): the title and the properties of both axes
MergedLayout(layout, dataset_layout) ==
    [layout EXCEPT !.title = dataset_layout.title,
                   !.xaxis = UpdateProps(layout.xaxis, dataset_layout.xaxis),
                   !.yaxis = UpdateProps(layout.yaxis, dataset_layout.yaxis)]

\* the log taken first, the percentage range replacing it afterwards
ViewBound_LogFirst(allowed, pct_bound, is_log, is_pct) ==
    LET val == IF is_log THEN LogOrNone(allowed) ELSE allowed
    IN  IF is_pct THEN pct_bound ELSE val

\* minval (or maxval) at the end of one round of the loop over the
\* controlled axes: the percentage range replaces the bound, then the log
ViewBound(allowed, pct_bound, is_log, is_pct) ==
    LET val == IF is_pct THEN pct_bound ELSE allowed
    IN  IF is_log THEN LogOrNone(val) ELSE val

\* one round of the loop over the controlled axes
SwitchedAxis(axis, name, dataset, pct_axis_update, is_log, is_pct) ==
    LET a == IF is_pct THEN UpdateProps(axis, pct_axis_update) ELSE axis
        pct_range == Get(dataset.pct_range, name, EmptyDict)
    IN  [a EXCEPT
            !.type = IF is_log THEN Log ELSE Linear,
            !.minallowed = ViewBound(axis.minallowed, Get(pct_range, "min", PyInt(0)), is_log, is_pct),
            !.maxallowed = ViewBound(axis.maxallowed, Get(pct_range, "max", PyInt(100)), is_log, is_pct)]

\* the layout that get_figure hands to dataset.create_figure
FigureLayout(p, dataset_id, is_log, is_pct, flat_arg) ==
    LET dataset == p.datasets[dataset_id + 1]
        merged == MergedLayout(p.layout, dataset.layout)
        sized == IF flat_arg THEN [merged EXCEPT !.width = PyInt(FLAT_PLOT_WIDTH)] ELSE merged
        axis(name) ==
            IF name \in Elements(p.axis_controlled_by_switches)
            THEN SwitchedAxis(sized[name], name, dataset, p.pct_axis_update, is_log, is_pct)
            ELSE sized[name]
    IN  [sized EXCEPT !.xaxis = axis("xaxis"), !.yaxis = axis("yaxis")]

\* get_figure working on the plot's own layout
WorkingLayout_NoCopy == "self"

\* the object whose properties get_figure sets: go.Layout(self.layout.to_plotly_json())
\* is a copy ("copy") of the plot's layout, not the plot's layout ("self")
WorkingLayout == "copy"

\* the figure: create_figure is the plot-specific dataset's; the model keeps
\* what it is called with
Figure(p, dataset_id, is_log, is_pct, flat_arg) ==
    [layout |-> FigureLayout(p, dataset_id, is_log, is_pct, flat_arg),
     dataset_id |-> dataset_id,
     is_log |-> is_log,
     is_pct |-> is_pct]

\* the plot after get_figure
PlotAfterFigure(p, fig) ==
    IF WorkingLayout = "self" THEN [p EXCEPT !.layout = fig.layout] ELSE p

GetFigure(dataset_id, is_log, is_pct, flat_arg) ==
    /\ plot # NoPlot
    /\ dataset_id \in 0..(Len(plot.datasets) - 1)
    /\ LET fig == Figure(plot, dataset_id, is_log, is_pct, flat_arg) IN
       /\ ret' = [op |-> "get_figure", raised |-> "none", flat |-> flat_arg, value |-> fig]
       /\ plot' = PlotAfterFigure(plot, fig)
    /\ UNCHANGED <<config, lint_errors, call, conf>>

-----------------------------------------------------------------------------
(* Plot.buttons *)

\* _btn: the button's class, label, data attributes and pressed state
_btn(p, cls, label, data_attrs, pressed) ==
    [cls |-> cls,
     label |-> label,
     data_attrs |-> IF "pid" \in DOMAIN data_attrs THEN data_attrs ELSE Put(data_attrs, "pid", p.id),
     pressed |-> pressed]

\* the entries of the dataset switch group
DatasetButtons(p) ==
    [i \in 1..Len(p.datasets) |->
        _btn(p, <<"mr-auto">>, p.datasets[i].label,
             [k \in {"dataset-index", "dataset-uid"} |->
                 IF k = "dataset-index" THEN PyInt(i - 1) ELSE p.datasets[i].uid],
             i = 1)]

\* the log switch put before the percentage switch
SwitchButtons_LogFirst(pct, log, group) == log \o pct \o group

\* switch_buttons: the percentage switch, the log switch, the dataset group
SwitchButtons(pct, log, group) == pct \o log \o group

\* buttons(flat): [switch_buttons, export_btn], each the sequence of its elements
buttons(p, flat_arg) ==
    LET cls == IF flat_arg THEN "mpl_switch_group" ELSE "interactive-switch-group"
        pct == IF p.add_pct_tab
               THEN <<_btn(p, <<cls, "percent-switch">>,
                           Get(p.pconfig, "cpswitch_percent_label",
                               PyStr(<<"P", "e", "r", "c", "e", "n", "t", "a", "g", "e", "s">>)),
                           EmptyDict, p.p_active)>>
               ELSE <<>>
        log == IF p.add_log_tab
               THEN <<_btn(p, <<cls, "log10-switch">>,
                           Get(p.pconfig, "logswitch_label", PyStr(<<"L", "o", "g", "1", "0">>)),
                           EmptyDict, p.l_active)>>
               ELSE <<>>
        group == IF Len(p.datasets) > 1
                 THEN <<[cls |-> <<"btn-group", cls, "dataset-switch-group">>,
                         group |-> DatasetButtons(p)]>>
                 ELSE <<>>
        export == IF ~flat_arg
                  THEN <<_btn(p, <<"export-plot">>,
                              PyStr(<<"E", "x", "p", "o", "r", "t", " ", "P", "l", "o", "t">>),
                              EmptyDict, FALSE)>>
                  ELSE <<>>
    IN  <<SwitchButtons(pct, log, group), export>>

Buttons(flat_arg) ==
    /\ plot # NoPlot
    /\ ret' = [op |-> "buttons", raised |-> "none", flat |-> flat_arg, value |-> buttons(plot, flat_arg)]
    /\ UNCHANGED <<config, lint_errors, call, plot, conf>>

-----------------------------------------------------------------------------
(* Plot.flat_plot and fig_to_static_html *)

\* fig_to_static_html: the image's element id, whether it is shown on load,
\* and the figure it renders (the pixels are the rendering library's)
fig_to_static_html(fig, active, file_name) ==
    [id |-> file_name, active |-> active, fig |-> fig]

\* the images of one dataset without the one of both switches
DatasetImages_NoPctLog(p, ds_idx) ==
    LET dataset == p.datasets[ds_idx + 1]
    IN  <<fig_to_static_html(Figure(p, ds_idx, FALSE, FALSE, TRUE),
                             ds_idx = 0 /\ ~p.p_active /\ ~p.l_active, dataset.uid.s)>>
        \o (IF p.add_pct_tab
            THEN <<fig_to_static_html(Figure(p, ds_idx, FALSE, TRUE, TRUE),
                                      ds_idx = 0 /\ p.p_active, dataset.uid.s)>>
            ELSE <<>>)
        \o (IF p.add_log_tab
            THEN <<fig_to_static_html(Figure(p, ds_idx, TRUE, FALSE, TRUE),
                                      ds_idx = 0 /\ p.l_active, dataset.uid.s)>>
            ELSE <<>>)

\* the images of dataset ds_idx (0-based), in the order they are written
DatasetImages(p, ds_idx) ==
    LET dataset == p.datasets[ds_idx + 1]
        cnt == <<fig_to_static_html(
                    Figure(p, ds_idx, FALSE, FALSE, TRUE),
                    ds_idx = 0 /\ ~p.p_active /\ ~p.l_active,
                    IF ~p.add_log_tab /\ ~p.add_pct_tab THEN dataset.uid.s
                    ELSE dataset.uid.s \o <<"-", "c", "n", "t">>)>>
        pct == IF p.add_pct_tab
               THEN <<fig_to_static_html(
                        Figure(p, ds_idx, FALSE, TRUE, TRUE),
                        ds_idx = 0 /\ p.p_active,
                        dataset.uid.s \o <<"-", "p", "c", "t">>)>>
               ELSE <<>>
        log == IF p.add_log_tab
               THEN <<fig_to_static_html(
                        Figure(p, ds_idx, TRUE, FALSE, TRUE),
                        ds_idx = 0 /\ p.l_active,
                        dataset.uid.s \o <<"-", "l", "o", "g">>)>>
               ELSE <<>>
        both == IF p.add_pct_tab /\ p.add_log_tab
                THEN <<fig_to_static_html(
                        Figure(p, ds_idx, TRUE, TRUE, TRUE),
                        ds_idx = 0 /\ p.p_active /\ p.l_active,
                        dataset.uid.s \o <<"-", "p", "c", "t", "-", "l", "o", "g">>)>>
                ELSE <<>>
    IN  cnt \o pct \o log \o both

RECURSIVE ImagesFrom(_, _)
ImagesFrom(p, ds_idx) ==
    IF ds_idx >= Len(p.datasets) THEN <<>>
    ELSE DatasetImages(p, ds_idx) \o ImagesFrom(p, ds_idx + 1)

\* flat_plot: the control panel (unless config.simple_output) and the images
flat_plot(p) ==
    [controls |-> IF ~config.simple_output THEN buttons(p, TRUE) ELSE <<>>,
     images |-> ImagesFrom(p, 0)]

\* the plot after flat_plot: every image goes through get_figure
RECURSIVE PlotAfterImages(_, _, _)
PlotAfterImages(p, images, i) ==
    IF i > Len(images) THEN p
    ELSE PlotAfterImages(PlotAfterFigure(p, images[i].fig), images, i + 1)

FlatPlot ==
    /\ plot # NoPlot
    /\ LET html == flat_plot(plot) IN
       /\ ret' = [op |-> "flat_plot", raised |-> "none", value |-> html]
       /\ plot' = PlotAfterImages(plot, html.images, 1)
    /\ UNCHANGED <<config, lint_errors, call, conf>>

-----------------------------------------------------------------------------
(* rename_deprecated_highcharts_keys *)

\* the outcome: the renamed copy, or the KeyError of a pop
rename_deprecated_highcharts_keys(c) ==
    IF "yCeiling" \in DOMAIN c /\ "y_ceiling" \notin DOMAIN c
    THEN [raised |-> "KeyError", value |-> None]
    ELSE LET c1 == IF "yCeiling" \in DOMAIN c
                   THEN Put(Pop(c, "y_ceiling"), "yaxis", c["y_ceiling"]) ELSE c
             c2 == IF "xAxis" \in DOMAIN c1
                   THEN Put(Pop(c1, "xAxis"), "xaxis", c1["xAxis"]) ELSE c1
             c3 == IF "tooltip" \in DOMAIN c2
                   THEN Put(Pop(c2, "tooltip"), "hovertemplate", c2["tooltip"]) ELSE c2
         IN  [raised |-> "none", value |-> PyDict(c3)]

RenameDeprecated ==
    /\ ret = NoRet
    /\ conf # None
    /\ LET out == rename_deprecated_highcharts_keys(conf.d) IN
       ret' = [op |-> "rename_deprecated_highcharts_keys", raised |-> out.raised, value |-> out.value]
    /\ UNCHANGED <<config, lint_errors, call, plot, conf>>

-----------------------------------------------------------------------------
(* _dataset_layout called on its own *)

\* the outcome of _dataset_layout(pconfig, dconfig, None): the exception, or
\* the layout and the trace_params
DatasetLayoutOutcome(pconfig, dconfig) ==
    IF _dataset_layout_error(pconfig, dconfig) # "none"
    THEN [op |-> "_dataset_layout", raised |-> _dataset_layout_error(pconfig, dconfig),
          dconfig |-> dconfig, value |-> None]
    ELSE [op |-> "_dataset_layout", raised |-> "none",
          dconfig |-> dconfig, value |-> _dataset_layout(pconfig, dconfig, None)]

DatasetLayoutCall(dconfig) ==
    /\ ret = NoRet
    /\ conf # None
    /\ ret' = DatasetLayoutOutcome(conf.d, dconfig)
    /\ UNCHANGED <<config, lint_errors, call, plot, conf>>

-----------------------------------------------------------------------------
(* The inputs the model draws, and the specifications *)

\* the largest n_datasets drawn
MaxDatasets == 2

\* the largest config.plots_flat_numseries drawn
MaxNumSeries == 1

\* every dict that gives some of the keys a value among the key's choices
RECURSIVE DictsOver(_, _)
DictsOver(keys, choices) ==
    IF keys = {} THEN {EmptyDict}
    ELSE LET k == CHOOSE x \in keys : TRUE
             rest == DictsOver(keys \ {k}, choices)
         IN  rest \cup {Put(d, k, v) : d \in rest, v \in choices[k]}

\* the switch keys of a plot configuration
SwitchChoices ==
    [logswitch |-> {True, False},
     cpswitch |-> {True, False},
     logswitch_active |-> {True, False},
     cpswitch_c_active |-> {True, False}]

\* the keys that name the plot and its datasets
NamingChoices ==
    [title |-> {PyStr(<<"R", "e", "a", "d", "s">>)},
     data_labels |-> {PyList(<<PyDict([k \in {"name"} |-> PyStr(<<"S", "a", "m", "p", "l", "e", "A">>)]),
                               PyStr(<<"B">>)>>)}]

\* the axis keys of a plot configuration: bounds that are negative, zero and
\* powers of ten, an always-log axis, and a second dataset with its own bound
AxisChoices ==
    [ymin |-> {PyInt(-10), PyInt(0), PyInt(1), PyInt(10)},
     ymax |-> {PyInt(0), PyInt(1000)},
     xmin |-> {PyInt(10)},
     ylog |-> {True},
     logswitch |-> {True},
     logswitch_active |-> {True},
     data_labels |-> {PyList(<<PyDict(EmptyDict), PyDict([k \in {"ymax"} |-> PyInt(10)])>>)}]

Configs ==
    [plots_force_flat : BOOLEAN,
     plots_force_interactive : BOOLEAN,
     plots_flat_numseries : 1..MaxNumSeries,
     strict : BOOLEAN,
     simple_output : BOOLEAN]

\* the configuration with nothing forced
DefaultConfig ==
    [plots_force_flat |-> FALSE,
     plots_force_interactive |-> FALSE,
     plots_flat_numseries |-> MaxNumSeries,
     strict |-> FALSE,
     simple_output |-> FALSE]

\* the calls of Plot.initialize that vary the switches and the plot type
SwitchCalls ==
    [plot_type : PlotType,
     pconfig : DictsOver(DOMAIN SwitchChoices, SwitchChoices),
     n_datasets : 0..MaxDatasets,
     id : {PyStr(<<"p">>)},
     axis_controlled_by_switches : {PyList(<<"yaxis">>)},
     default_tt_label : {None}]

\* the calls of Plot.initialize that vary the id and the names, made under
\* every global configuration
NamingCalls ==
    [plot_type : {BAR, SCATTER},
     pconfig : {Update(s, n) : s \in {EmptyDict, [k \in {"logswitch"} |-> True]},
                               n \in DictsOver(DOMAIN NamingChoices, NamingChoices)},
     n_datasets : 0..MaxDatasets,
     id : {None, PyStr(<<"p">>)},
     axis_controlled_by_switches : {None},
     default_tt_label : {None}]

\* the calls of Plot.initialize that vary the axes
AxisCalls ==
    [plot_type : {BAR},
     pconfig : DictsOver(DOMAIN AxisChoices, AxisChoices),
     n_datasets : 1..MaxDatasets,
     id : {PyStr(<<"p">>)},
     axis_controlled_by_switches : {None, PyList(<<"yaxis">>), PyList(<<"xaxis", "yaxis">>)},
     default_tt_label : {None}]

\* the arguments of rename_deprecated_highcharts_keys: the deprecated keys,
\* the key the first rename pops, and a key that has no other spelling
RenameChoices ==
    [yCeiling |-> {PyInt(1), PyInt(2)},
     y_ceiling |-> {PyInt(1), PyInt(3)},
     xAxis |-> {PyInt(1), PyInt(2)},
     tooltip |-> {PyInt(1), PyInt(2)},
     title |-> {PyInt(1), PyInt(2)}]

\* the entries of data_labels: a name, dicts with a name, a label or
\* neither, and entries that are neither a str nor a dict
LabelEntries ==
    {PyStr(<<"B">>),
     PyDict([k \in {"name"} |-> PyStr(<<"S", "a", "m", "p", "l", "e", "A">>)]),
     PyDict([k \in {"label"} |-> PyStr(<<"L">>)]),
     PyDict(EmptyDict),
     PyInt(5),
     None}

\* the keys that label the datasets, and an axis label of the whole plot
LabelChoices ==
    [data_labels |-> {PyList(<<a>>) : a \in LabelEntries}
                     \cup {PyList(<<a, b>>) : a \in LabelEntries, b \in LabelEntries},
     ylab |-> {PyStr(<<"R", "e", "a", "d", "s">>)}]

\* the calls of Plot.initialize that vary the labels of the datasets
LabelCalls ==
    [plot_type : {BAR, LINE},
     pconfig : DictsOver(DOMAIN LabelChoices, LabelChoices),
     n_datasets : 1..MaxDatasets,
     id : {PyStr(<<"p">>)},
     axis_controlled_by_switches : {None, PyList(<<"yaxis">>)},
     default_tt_label : {None}]

\* the known suffixes as they are written in a label
SuffixTokens == {Strip(KNOWN_SUFFIXES[i]) : i \in 1..Len(KNOWN_SUFFIXES)}

\* tooltip labels with a suffix after the plain placeholder of y or of x,
\* with and without a space between them, in both spellings of a placeholder
TooltipLabels ==
    {<<"{", "p", "o", "i", "n", "t", ".", "x", "}", ":", " ",
       "{", "p", "o", "i", "n", "t", ".", "y", "}">> \o sep \o tok :
        sep \in {<<>>, <<" ">>}, tok \in SuffixTokens}
    \cup {<<"%", "{", "x", "}">> \o sep \o tok \o <<":", " ", "%", "{", "y", "}">> :
            sep \in {<<>>, <<" ">>}, tok \in SuffixTokens}

\* the keys of a configuration that _dataset_layout takes the suffixes from:
\* suffixes given bare and with a space before them
LayoutChoices ==
    [tt_label |-> {PyStr(l) : l \in TooltipLabels},
     ysuffix |-> {PyStr(<<"%">>), PyStr(<<" ", "%">>), PyStr(<<"b", "p">>),
                  PyStr(<<" ", "b", "p">>), PyStr(<<"k", "b", "p">>), PyStr(<<"x">>)},
     xsuffix |-> {PyStr(<<"b", "p">>), PyStr(<<" ", "%">>)}]

\* the dataset's own configuration: nothing, or an axis label with a unit
LayoutDConfigs ==
    {EmptyDict,
     [k \in {"ylab"} |-> PyStr(<<"L", "e", "n", "g", "t", "h", " ", "(", "b", "p", ")">>)]}

InitCommon ==
    /\ plot = NoPlot
    /\ ret = NoRet
    /\ lint_errors = <<>>

Init ==
    /\ InitCommon
    /\ \/ config = DefaultConfig /\ call \in SwitchCalls
       \/ config \in Configs /\ call \in NamingCalls
    /\ conf = None

InitAxis ==
    /\ InitCommon
    /\ config = DefaultConfig
    /\ call \in AxisCalls
    /\ conf = None

Next ==
    \/ Initialize
    \/ \E dataset_id \in 0..(MaxDatasets - 1), is_log \in BOOLEAN, is_pct \in BOOLEAN, flat_arg \in BOOLEAN :
          GetFigure(dataset_id, is_log, is_pct, flat_arg)
    \/ \E flat_arg \in BOOLEAN : Buttons(flat_arg)
    \/ FlatPlot

Spec == Init /\ [][Next]_vars

SpecAxis == InitAxis /\ [][Next]_vars

InitLabels ==
    /\ InitCommon
    /\ config = DefaultConfig
    /\ call \in LabelCalls
    /\ conf = None

SpecLabels == InitLabels /\ [][Next]_vars

InitLayout ==
    /\ InitCommon
    /\ config = DefaultConfig
    /\ call = None
    /\ conf \in {PyDict(d) : d \in DictsOver(DOMAIN LayoutChoices, LayoutChoices)}

NextLayout == \E dconfig \in LayoutDConfigs : DatasetLayoutCall(dconfig)

SpecLayout == InitLayout /\ [][NextLayout]_vars

InitRename ==
    /\ InitCommon
    /\ config = DefaultConfig
    /\ call = None
    /\ conf \in {PyDict(d) : d \in DictsOver(DOMAIN RenameChoices, RenameChoices)}

NextRename == RenameDeprecated

SpecRename == InitRename /\ [][NextRename]_vars

-----------------------------------------------------------------------------
(* The claims *)

\* C1: Plot.initialize called with n_datasets == 0 raises ValueError, for
\* every plot type and every configuration, and no Plot is produced.
C1_NoDatasetsRaises ==
    (call # None /\ call.n_datasets = 0) =>
        /\ plot = NoPlot
        /\ ret # NoRet => (ret.op = "initialize" /\ ret.raised = "ValueError")

C1_Witness ==
    /\ call # None
    /\ call.n_datasets = 0
    /\ call.plot_type = BAR
    /\ "logswitch" \in DOMAIN call.pconfig
    /\ ret.op = "initialize"
    /\ ret.raised = "ValueError"

\* C2: in every Plot that Plot.initialize built, the dataset uids are pairwise
\* distinct; a single dataset has the plot's id as its uid, and with more
\* datasets the uid of the i-th (1-based) is the plot's id followed by "_i".
C2_DatasetUids ==
    plot # NoPlot =>
        LET n == Len(plot.datasets) IN
        /\ n = call.n_datasets
        /\ \A i, j \in 1..n : i # j => plot.datasets[i].uid # plot.datasets[j].uid
        /\ n = 1 => plot.datasets[1].uid = plot.id
        /\ n > 1 => \A i \in 1..n :
                plot.datasets[i].uid = PyStr(plot.id.s \o <<"_", DigitChars[i + 1]>>)

C2_Witness ==
    /\ plot # NoPlot
    /\ Len(plot.datasets) = 2
    /\ call.id = None
    /\ "id" \notin DOMAIN call.pconfig
    /\ plot.datasets[2].uid.s = plot.id.s \o <<"_", "2">>

\* the keys of the configured bounds of an axis
MinKey(axis) == IF axis = "xaxis" THEN "xmin" ELSE "ymin"
MaxKey(axis) == IF axis = "xaxis" THEN "xmax" ELSE "ymax"

\* the bound pair configured for an axis of dataset dataset_id: the
\* dataset's own keys over the plot's
ConfiguredBounds(dataset_id, axis) ==
    LET cfg == Update(call.pconfig, plot.datasets[dataset_id + 1].dconfig)
    IN  <<Get(cfg, MinKey(axis), None), Get(cfg, MaxKey(axis), None)>>

\* C3: a get_figure call (and flat_plot, which makes them) leaves the plot's
\* base layout and every dataset's layout overrides and pct_range as they
\* were; and get_figure with (is_log, is_pct) = (false, false) right after
\* get_figure with (true, true) on the same dataset gives every controlled
\* axis exactly the configured bound pair.
C3_GetFigureKeepsPlot ==
    [][plot # NoPlot =>
        /\ plot'.layout = plot.layout
        /\ Len(plot'.datasets) = Len(plot.datasets)
        /\ \A i \in 1..Len(plot.datasets) :
            /\ plot'.datasets[i].layout = plot.datasets[i].layout
            /\ plot'.datasets[i].pct_range = plot.datasets[i].pct_range
        /\ ( /\ ret.op = "get_figure" /\ ret.value.is_log /\ ret.value.is_pct
             /\ ret'.op = "get_figure" /\ ~ret'.value.is_log /\ ~ret'.value.is_pct
             /\ ret'.value.dataset_id = ret.value.dataset_id )
           => \A axis \in Elements(plot.axis_controlled_by_switches) :
                <<ret'.value.layout[axis].minallowed, ret'.value.layout[axis].maxallowed>>
                    = ConfiguredBounds(ret.value.dataset_id, axis)
      ]_vars

C3_Witness ==
    /\ plot # NoPlot
    /\ ret.op = "get_figure"
    /\ ~ret.value.is_log
    /\ ~ret.value.is_pct
    /\ "yaxis" \in Elements(plot.axis_controlled_by_switches)
    /\ ConfiguredBounds(ret.value.dataset_id, "yaxis") = <<PyInt(10), PyInt(1000)>>
    /\ ret.value.layout.yaxis.minallowed = PyInt(10)
    /\ ret.value.layout.yaxis.maxallowed = PyInt(1000)
    /\ plot.layout.yaxis.minallowed = None

\* the base-10 logarithm of a bound, by the table of the powers of ten
Log10Table(val) ==
    IF val = None THEN None
    ELSE IF val.i <= 0 THEN None
    ELSE IF val.i = 1 THEN PyInt(0)
    ELSE IF val.i = 10 THEN PyInt(1)
    ELSE IF val.i = 100 THEN PyInt(2)
    ELSE PyInt(3)

\* C4: for every controlled axis, get_figure starts from the configured
\* (minallowed, maxallowed); if is_pct it takes the dataset's percentage range
\* instead and sets the suffix "%" and the hover format ".1f"; then, if is_log,
\* the type is log and each bound is its base-10 logarithm when positive and
\* unset otherwise; else the type is linear.  With both, the bounds are the
\* log of the percentage bounds.
C4_AxisResolution ==
    ret.op = "get_figure" =>
        \A axis \in Elements(plot.axis_controlled_by_switches) :
            LET fig == ret.value
                resolved == fig.layout[axis]
                pct_range == plot.datasets[fig.dataset_id + 1].pct_range[axis]
                start == IF fig.is_pct THEN <<pct_range["min"], pct_range["max"]>>
                         ELSE ConfiguredBounds(fig.dataset_id, axis)
                bounds == IF fig.is_log THEN <<Log10Table(start[1]), Log10Table(start[2])>>
                          ELSE start
            IN  /\ resolved.type = IF fig.is_log THEN Log ELSE Linear
                /\ <<resolved.minallowed, resolved.maxallowed>> = bounds
                /\ resolved.minallowed.t \in {"None", "int"}
                /\ resolved.maxallowed.t \in {"None", "int"}
                /\ fig.is_pct => /\ resolved.ticksuffix = PyStr(<<"%">>)
                                 /\ resolved.hoverformat = PyStr(<<".", "1", "f">>)
                /\ (fig.is_log /\ fig.is_pct) => bounds = <<None, PyInt(2)>>

C4_Witness ==
    /\ ret.op = "get_figure"
    /\ ret.value.is_log
    /\ ret.value.is_pct
    /\ "yaxis" \in Elements(plot.axis_controlled_by_switches)
    /\ ConfiguredBounds(ret.value.dataset_id, "yaxis") = <<PyInt(-10), PyInt(1000)>>
    /\ ret.value.layout.yaxis.minallowed = None
    /\ ret.value.layout.yaxis.maxallowed = PyInt(2)

\* the (percent, log) views a plot's switches reach
ViewsOf(p) ==
    {<<pct, log>> : pct \in (IF p.add_pct_tab THEN BOOLEAN ELSE {FALSE}),
                    log \in (IF p.add_log_tab THEN BOOLEAN ELSE {FALSE})}

\* C5: flat_plot writes, for every dataset, exactly 2^(add_log_tab + add_pct_tab)
\* images, one for each (percent, log) view its switches reach.
C5_FlatImagesPerDataset ==
    ret.op = "flat_plot" =>
        \A d \in 0..(Len(plot.datasets) - 1) :
            LET images == ret.value.images
                of_d == {i \in 1..Len(images) : images[i].fig.dataset_id = d}
            IN  /\ Cardinality(of_d) = 2 ^ ((IF plot.add_log_tab THEN 1 ELSE 0)
                                            + (IF plot.add_pct_tab THEN 1 ELSE 0))
                /\ {<<images[i].fig.is_pct, images[i].fig.is_log>> : i \in of_d} = ViewsOf(plot)

C5_Witness ==
    /\ ret.op = "flat_plot"
    /\ plot.add_log_tab
    /\ plot.add_pct_tab
    /\ Len(plot.datasets) = 2
    /\ Len(ret.value.images) = 8

\* the key each deprecated key is renamed to
RenamedKey(k) ==
    IF k = "yCeiling" THEN "yaxis" ELSE IF k = "xAxis" THEN "xaxis" ELSE "hovertemplate"

\* C6: rename_deprecated_highcharts_keys never fails; every deprecated key of
\* the input is replaced in the result by its new key with the same value,
\* and every other key passes through unchanged.
C6_RenameNeverFails ==
    ret.op = "rename_deprecated_highcharts_keys" =>
        /\ ret.raised = "none"
        /\ \A k \in DOMAIN conf.d :
            IF k \in {"yCeiling", "xAxis", "tooltip"}
            THEN /\ k \notin DOMAIN ret.value.d
                 /\ RenamedKey(k) \in DOMAIN ret.value.d
                 /\ ret.value.d[RenamedKey(k)] = conf.d[k]
            ELSE /\ k \in DOMAIN ret.value.d
                 /\ ret.value.d[k] = conf.d[k]

\* C7: add_log_tab is true iff the configuration asks for the log switch and
\* the plot is a line or bar plot; add_pct_tab is true iff the plot is a bar
\* plot and the configuration does not switch the percentages off; and in
\* every Plot l_active implies add_log_tab and p_active implies add_pct_tab.
C7_SwitchTabs ==
    plot # NoPlot =>
        /\ plot.add_log_tab <=>
            /\ "logswitch" \in DOMAIN call.pconfig
            /\ call.pconfig.logswitch = True
            /\ call.plot_type \in {LINE, BAR}
        /\ plot.add_pct_tab <=>
            /\ call.plot_type = BAR
            /\ ~("cpswitch" \in DOMAIN call.pconfig /\ call.pconfig.cpswitch = False)
        /\ plot.l_active => plot.add_log_tab
        /\ plot.p_active => plot.add_pct_tab

C7_Witness ==
    /\ plot # NoPlot
    /\ call.plot_type = LINE
    /\ plot.add_log_tab
    /\ plot.l_active
    /\ ~plot.add_pct_tab
    /\ "cpswitch" \notin DOMAIN call.pconfig

\* C8 as claimed: a plot with a percentage switch and no cpswitch_c_active in
\* its configuration has p_active true.
C8_PctActiveByDefault ==
    (plot # NoPlot /\ plot.add_pct_tab /\ "cpswitch_c_active" \notin DOMAIN call.pconfig)
        => plot.p_active

\* C8, amended: a plot with a percentage switch has p_active false unless the
\* configuration gives a cpswitch_c_active other than True; with no
\* cpswitch_c_active, p_active is false.
C8_PctActiveOnlyOnRequest ==
    (plot # NoPlot /\ plot.add_pct_tab) =>
        (plot.p_active <=>
            /\ "cpswitch_c_active" \in DOMAIN call.pconfig
            /\ call.pconfig.cpswitch_c_active # True)

C8_Witness ==
    /\ plot # NoPlot
    /\ plot.add_pct_tab
    /\ "cpswitch_c_active" \notin DOMAIN call.pconfig
    /\ ~plot.p_active

\* what a control is, by its class
KindOf(b) ==
    IF "percent-switch" \in Elements(b.cls) THEN "percent"
    ELSE IF "log10-switch" \in Elements(b.cls) THEN "log"
    ELSE IF "dataset-switch-group" \in Elements(b.cls) THEN "datasets"
    ELSE IF "export-plot" \in Elements(b.cls) THEN "export"
    ELSE "other"

\* C9: buttons(flat) lists the controls in the order percent, log, dataset
\* switches, export: a percentage switch iff add_pct_tab, a log switch iff
\* add_log_tab, a dataset group iff there is more than one dataset, with one
\* entry per dataset in order that carries its index, label and uid and is
\* pressed only for dataset 0, and an export button iff flat is false.
C9_ButtonsOrder ==
    ret.op = "buttons" =>
        LET switches == ret.value[1]
            export == ret.value[2]
            n == Len(plot.datasets)
            expected == (IF plot.add_pct_tab THEN <<"percent">> ELSE <<>>)
                        \o (IF plot.add_log_tab THEN <<"log">> ELSE <<>>)
                        \o (IF n > 1 THEN <<"datasets">> ELSE <<>>)
        IN  /\ Len(switches) = Len(expected)
            /\ \A i \in 1..Len(switches) : KindOf(switches[i]) = expected[i]
            /\ Len(export) = IF ret.flat THEN 0 ELSE 1
            /\ \A i \in 1..Len(export) : KindOf(export[i]) = "export"
            /\ n > 1 =>
                LET group == switches[Len(switches)].group IN
                /\ Len(group) = n
                /\ \A i \in 1..n :
                    /\ group[i].data_attrs["dataset-index"] = PyInt(i - 1)
                    /\ group[i].data_attrs["dataset-uid"] = plot.datasets[i].uid
                    /\ group[i].label = plot.datasets[i].label
                    /\ group[i].pressed <=> (i = 1)

C9_Witness ==
    /\ ret.op = "buttons"
    /\ ~ret.flat
    /\ plot.add_pct_tab
    /\ plot.add_log_tab
    /\ Len(plot.datasets) = 2
    /\ Len(ret.value[1]) = 3
    /\ Len(ret.value[2]) = 1

\* C10 as claimed: flat is true whenever plots_force_flat is on or n_datasets
\* exceeds plots_flat_numseries, whatever the other settings; and false when
\* neither holds.
C10_FlatWhateverTheRest ==
    plot # NoPlot =>
        /\ (config.plots_force_flat \/ call.n_datasets > config.plots_flat_numseries)
            => plot.flat
        /\ (~config.plots_force_flat /\ call.n_datasets <= config.plots_flat_numseries)
            => ~plot.flat

\* C10, amended: flat is true whenever plots_force_flat is on, or n_datasets
\* exceeds plots_flat_numseries while plots_force_interactive is off; it is
\* false otherwise.
C10_FlatUnlessForcedInteractive ==
    plot # NoPlot =>
        (plot.flat <=>
            \/ config.plots_force_flat
            \/ /\ ~config.plots_force_interactive
               /\ call.n_datasets > config.plots_flat_numseries)

C10_Witness ==
    /\ plot # NoPlot
    /\ ~config.plots_force_flat
    /\ config.plots_force_interactive
    /\ call.n_datasets > config.plots_flat_numseries
    /\ ~plot.flat

\* the label the claim gives dataset idx (0-based) for its data_labels entry
ClaimedLabel(pconfig, idx) ==
    LET given == Get(pconfig, "data_labels", PyList(<<>>))
        index == PyStr(<<DigitChars[idx + 2]>>)
    IN  IF idx >= Len(given.l) THEN index
        ELSE IF given.l[idx + 1].t = "str" THEN given.l[idx + 1]
        ELSE IF given.l[idx + 1].t = "dict"
        THEN Get(given.l[idx + 1].d, "name", Get(given.l[idx + 1].d, "label", index))
        ELSE index

\* C11: the label of each dataset is its data_labels entry's name, else its
\* label, else the 1-based index as a string; when the entry is neither a str
\* nor a dict, Plot.initialize does not fail and the label is the index string.
C11_LabelFallsBackToIndex ==
    (ret.op = "initialize" /\ call.n_datasets > 0) =>
        /\ ret.raised = "none"
        /\ \A idx \in 0..(call.n_datasets - 1) :
            plot.datasets[idx + 1].label = ClaimedLabel(call.pconfig, idx)

\* C12: among the images that flat_plot writes exactly one is active: the
\* image of dataset 0 whose (percent, log) view is (p_active, l_active);
\* every other image is hidden.
C12_OneActiveImage ==
    ret.op = "flat_plot" =>
        LET images == ret.value.images
            shown == {i \in 1..Len(images) : images[i].active}
        IN  /\ Cardinality(shown) = 1
            /\ \A i \in shown :
                /\ images[i].fig.dataset_id = 0
                /\ images[i].fig.is_pct = plot.p_active
                /\ images[i].fig.is_log = plot.l_active

\* C13: Plot.initialize does not change its inputs: after the call the
\* caller's pconfig, with every entry of its data_labels, and the caller's
\* list of controlled axes have the contents they had before it.
C13_InitializeKeepsInputs ==
    [][(ret = NoRet /\ ret'.op = "initialize") =>
        /\ call'.pconfig = call.pconfig
        /\ call'.axis_controlled_by_switches = call.axis_controlled_by_switches
      ]_vars

\* C14: when ylog makes the y axis always logarithmic, every figure that
\* get_figure returns, in every view, has the y axis of type log with each
\* configured bound (ymin, ymax) replaced by its base-10 logarithm when it is
\* positive and unset otherwise, and the axis is not among the axes that the
\* switches control.
C14_StaticLogAxis ==
    (ret.op = "get_figure" /\ Truthy(Get(call.pconfig, "ylog", None))) =>
        LET axis == ret.value.layout.yaxis
            configured == ConfiguredBounds(ret.value.dataset_id, "yaxis")
        IN  /\ axis.type = Log
            /\ axis.minallowed = Log10Table(configured[1])
            /\ axis.maxallowed = Log10Table(configured[2])
            /\ "yaxis" \notin Elements(plot.axis_controlled_by_switches)

\* whether the suffix token of an axis stands right after the plain
\* placeholder of the axis v ("y" or "x") in a template, with or without a
\* space between them
SuffixAfterPlaceholder(template, v, ticksuffix) ==
    /\ ticksuffix # <<>>
    /\ \/ Contains(template, <<"{", v, "}">> \o Strip(ticksuffix))
       \/ Contains(template, <<"{", v, "}", " ">> \o Strip(ticksuffix))

\* C15: the hover template that _dataset_layout builds from a tooltip label
\* never has the suffix resolved for an axis right after the plain placeholder
\* of that axis ({y} or {x}), with or without a space between them, whichever
\* of the known suffixes it is: the suffix is on the axis ticks only.
C15_SuffixStrippedFromTooltip ==
    (ret.op = "_dataset_layout" /\ "tt_label" \in DOMAIN conf.d) =>
        /\ ret.raised = "none"
        /\ "hovertemplate" \in DOMAIN ret.value.trace_params
        /\ ~SuffixAfterPlaceholder(ret.value.trace_params["hovertemplate"].s, "y",
                                   ret.value.layout.yaxis.ticksuffix.s)
        /\ ~SuffixAfterPlaceholder(ret.value.trace_params["hovertemplate"].s, "x",
                                   ret.value.layout.xaxis.ticksuffix.s)

\* the known suffix that is a token once the spaces around it are taken away
CanonicalSuffix(suffix) ==
    KNOWN_SUFFIXES[CHOOSE i \in 1..Len(KNOWN_SUFFIXES) : Strip(KNOWN_SUFFIXES[i]) = Strip(suffix)]

\* C16: a configured ysuffix or xsuffix that is a known suffix up to the
\* spaces around it becomes that known suffix on the axis ticks: "%" and " %"
\* both give "%", "bp" and " bp" both give " bp".
C16_SuffixCanonicalized ==
    ret.op = "_dataset_layout" =>
        /\ ret.raised = "none"
        /\ ("ysuffix" \in DOMAIN conf.d /\ Strip(conf.d["ysuffix"].s) \in SuffixTokens)
            => ret.value.layout.yaxis.ticksuffix = PyStr(CanonicalSuffix(conf.d["ysuffix"].s))
        /\ ("xsuffix" \in DOMAIN conf.d /\ Strip(conf.d["xsuffix"].s) \in SuffixTokens)
            => ret.value.layout.xaxis.ticksuffix = PyStr(CanonicalSuffix(conf.d["xsuffix"].s))

====
